---- MODULE Spec2Model ----
(***************************************************************************)
(* s3-upload-cleaner (src/main.go): a sequential garbage-collection pass   *)
(* over an S3 bucket that holds a container registry.  main pages through  *)
(* the grouped listing of repository prefixes; per prefix cleanMPUs pages  *)
(* through the in-progress multipart uploads and aborts the old ones; per  *)
(* page of the grouped listing cleanUploadFolders pages through the flat   *)
(* object listing, reads every _uploads/<id>/startedat marker and has      *)
(* removeUploadFolder delete the folders whose marker is old.              *)
(*                                                                         *)
(* Object keys are sequences of characters.  The words the program tests   *)
(* for ("_uploads", "startedat") and the other fixed path words are single *)
(* characters of the alphabet; prefix, suffix, containment, split and join *)
(* are the character-level operations of Go's strings package.            *)
(*                                                                         *)
(* The store is S3 as documented: listings are in lexicographic key order, *)
(* a page holds at most MaxKeys entries, ListMultipartUploads with a       *)
(* key-marker and no upload-id-marker returns only keys greater than the   *)
(* marker, ListObjectsV2 without MaxKeys returns one page of the default   *)
(* size, GetObject of an absent key fails, DeleteObject of an absent key   *)
(* succeeds.  The response fields the program dereferences without a nil   *)
(* test (IsTruncated, NextKeyMarker) are present in every successful       *)
(* response.                                                               *)
(***************************************************************************)
EXTENDS Integers, Sequences, FiniteSets, TLC

\* ------------------------------------------------------------------ bounds
\* Page size of the three paginated listings (MaxResultCount, 1000 in the
\* source) and of the store's default page, scaled down.
MaxResultCount == 2
\* Program invocations per behaviour.
MaxRuns == 2
\* Store calls the environment may fail per behaviour.
MaxFaults == 1

\* ------------------------------------------------------------- characters
\* The alphabet in byte order: '/' < '_' < 'a' < ... < 'y'.
Alphabet ==
  <<"/", "_uploads", "a", "b", "c", "data", "hashstates", "repositories",
    "startedat", "x", "y">>

Ord(c) == CHOOSE i \in 1..Len(Alphabet) : Alphabet[i] = c

Min(a, b) == IF a <= b THEN a ELSE b

\* s < t as Go compares strings (and as S3 orders keys): byte by byte.
Less(s, t) ==
  \E i \in 1..(Min(Len(s), Len(t)) + 1) :
     /\ \A j \in 1..(i - 1) : s[j] = t[j]
     /\ \/ i > Len(s) /\ i <= Len(t)
        \/ i <= Len(s) /\ i <= Len(t) /\ Ord(s[i]) < Ord(t[i])

HasPrefix(s, p) == Len(p) <= Len(s) /\ SubSeq(s, 1, Len(p)) = p

HasSuffix(s, p) ==
  Len(p) <= Len(s) /\ SubSeq(s, Len(s) - Len(p) + 1, Len(s)) = p

Contains(s, p) ==
  \E i \in 1..(Len(s) - Len(p) + 1) : SubSeq(s, i, i + Len(p) - 1) = p

\* strings.Split(s, "/"): the segments between the separators.
RECURSIVE Split(_)
Split(s) ==
  IF \A i \in 1..Len(s) : s[i] # "/" THEN <<s>>
  ELSE LET i == CHOOSE k \in 1..Len(s) :
                  s[k] = "/" /\ \A j \in 1..(k - 1) : s[j] # "/"
       IN  <<SubSeq(s, 1, i - 1)>> \o Split(SubSeq(s, i + 1, Len(s)))

\* strings.Join(parts, "/").
RECURSIVE Join(_)
Join(parts) ==
  IF parts = <<>> THEN <<>>
  ELSE IF Len(parts) = 1 THEN parts[1]
  ELSE parts[1] \o <<"/">> \o Join(Tail(parts))

\* The elements of a finite set of keys in ascending order.
RECURSIVE SortKeys(_)
SortKeys(S) ==
  IF S = {} THEN <<>>
  ELSE LET m == CHOOSE x \in S : \A y \in S \ {x} : Less(x, y)
       IN  <<m>> \o SortKeys(S \ {m})

Take(q, n) == SubSeq(q, 1, Min(n, Len(q)))

Last(q) == q[Len(q)]

\* ------------------------------------------------------------------ store
startedadDateFormat == "2006-01-02T15:04:05Z"

\* Clock ticks per hour: the clock and every timestamp count half hours.
TicksPerHour == 2

\* prefix := "docker/registry/v2/repositories/" (RootDirectory empty).
Root == <<"repositories", "/">>

NoKey == <<>>

Repo(r) == Root \o <<r, "/">>
Folder(r, id) == Repo(r) \o <<"_uploads", "/">> \o id
MarkerKey(r, id) == Folder(r, id) \o <<"/", "startedat">>
DataKey(r, id) == Folder(r, id) \o <<"/", "data">>
HashKey(r, id) == Folder(r, id) \o <<"/", "hashstates">>
PlainKey(r) == Repo(r) \o <<"data">>

\* Object bodies: a startedat marker written by the registry holds its start
\* time in the fixed format; anything else does not parse.
Stamp(t) == [fmt |-> startedadDateFormat, t |-> t]
Garbage == [fmt |-> "garbage", t |-> 0]
Blob == [fmt |-> "blob", t |-> 0]

Upload(k, id, t) == [Key |-> k, UploadId |-> id, Initiated |-> t]

\* S3 lists uploads by key, and the uploads of one key by initiation time.
UploadLess(u, v) ==
  \/ Less(u.Key, v.Key)
  \/ /\ u.Key = v.Key
     /\ \/ u.Initiated < v.Initiated
        \/ u.Initiated = v.Initiated /\ u.UploadId < v.UploadId

RECURSIVE SortUploads(_)
SortUploads(S) ==
  IF S = {} THEN <<>>
  ELSE LET m == CHOOSE x \in S : \A y \in S \ {x} : UploadLess(x, y)
       IN  <<m>> \o SortUploads(S \ {m})

After(mark, k) == mark = NoKey \/ Less(mark, k)

\* The entry a key shows as in a listing grouped by "/" under prefix: the key
\* itself, or the common prefix that ends at the first "/" after the prefix.
GroupEntry(prefix, k) ==
  LET rest == SubSeq(k, Len(prefix) + 1, Len(k))
  IN  IF Contains(rest, <<"/">>)
      THEN LET i == CHOOSE n \in 1..Len(rest) :
                      rest[n] = "/" /\ \A j \in 1..(n - 1) : rest[j] # "/"
           IN  [Name |-> prefix \o SubSeq(rest, 1, i), IsPrefix |-> TRUE]
      ELSE [Name |-> k, IsPrefix |-> FALSE]

\* s.ListObjects(Prefix, Delimiter "/", Marker, MaxKeys) on the objects objs.
StoreListObjects(objs, prefix, mark, maxKeys) ==
  LET all   == {GroupEntry(prefix, k) : k \in {x \in DOMAIN objs : HasPrefix(x, prefix)}}
      names == SortKeys({e.Name : e \in {x \in all : After(mark, x.Name)}})
      page  == Take(names, maxKeys)
      trunc == Len(names) > maxKeys
      isCP(n) == \E e \in all : e.Name = n /\ e.IsPrefix
  IN  [CommonPrefixes |-> SelectSeq(page, isCP),
       IsTruncated    |-> trunc,
       NextMarker     |-> IF trunc THEN Last(page) ELSE NoKey,
       Prefix         |-> prefix]

\* s.ListMultipartUploads(Prefix, KeyMarker, MaxUploads) with no
\* UploadIdMarker: only keys greater than KeyMarker are listed.  The store
\* returns both halves of its cursor; cleanMPUs reads NextKeyMarker alone.
StoreListMultipartUploads(ups, prefix, keyMarker, maxUploads) ==
  LET all   == SortUploads({u \in ups : HasPrefix(u.Key, prefix) /\ After(keyMarker, u.Key)})
      page  == Take(all, maxUploads)
      trunc == Len(all) > maxUploads
  IN  [Uploads       |-> page,
       IsTruncated   |-> trunc,
       NextKeyMarker |-> IF trunc THEN Last(page).Key ELSE NoKey,
       NextUploadIdMarker |-> IF trunc THEN Last(page).UploadId ELSE 0]

\* s.ListObjectsV2(Prefix, MaxKeys, ContinuationToken): the token stands for
\* the last key of the page that returned it.
StoreListObjectsV2(objs, prefix, token, maxKeys) ==
  LET all   == SortKeys({k \in DOMAIN objs : HasPrefix(k, prefix) /\ After(token, k)})
      page  == Take(all, maxKeys)
      trunc == Len(all) > maxKeys
  IN  [Contents              |-> page,
       IsTruncated           |-> trunc,
       NextContinuationToken |-> IF trunc THEN Last(page) ELSE NoKey]

\* removeUploadFolder sets no MaxKeys: the store answers with one page of
\* its default size (1000, the value of MaxResultCount).
DefaultMaxKeys == MaxResultCount

Without(f, k) == [x \in DOMAIN f \ {k} |-> f[x]]

\* ------------------------------------------------------------------ state
VARIABLES
  opts,      \* the parsed flags: DryRun, CleanupHours
  uploads,   \* the store's in-progress multipart uploads
  objects,   \* the store's objects: key -> body
  now,       \* the wall clock, in ticks
  faults,    \* store calls the environment may still fail
  pc,        \* the statement the process is at
  main,      \* main's locals: isTruncated, marker, totalRemoved, CommonPrefixes
  mpu,       \* cleanMPUs' locals: prefix, isTruncated, keyMarker, totalRemoved, Uploads
  fold,      \* cleanUploadFolders' locals: continuationToken, Contents and the page's cursor
  rm,        \* removeUploadFolder's locals: prefix, uploadsFolder, Contents
  log,       \* this run's store calls and decisions, in order
  start,     \* the store, the clock and the fault budget when this run started
  past       \* the earlier runs: flags, clock, outcome, log, store before

vars == <<opts, uploads, objects, now, faults, pc, main, mpu, fold, rm, log, start, past>>

Ev(op, key, id, n, ok) == [op |-> op, key |-> key, id |-> id, n |-> n, ok |-> ok]

\* ------------------------------------------------------- pure functions
\* int(d.Hours()): the duration in hours, truncated toward zero.
Hours(d) == IF d >= 0 THEN d \div TicksPerHour ELSE -((-d) \div TicksPerHour)

\* (variant: the boundary excluded)
EligibleStrict(hoursSince) == hoursSince > opts.CleanupHours

\* hoursSince >= opts.CleanupHours
Eligible(hoursSince) == hoursSince >= opts.CleanupHours

\* (variant: the flag not consulted)
AbortAlways == TRUE

\* if !opts.DryRun, around AbortMultipartUpload
AbortAllowed == ~opts.DryRun

\* if !opts.DryRun, around cleanUploadFolders and removeUploadFolder
DeleteAllowed == ~opts.DryRun

\* strings.Contains(key, "/_uploads/") && strings.HasSuffix(key, "/startedat")
IsMarker(key) ==
  Contains(key, <<"/", "_uploads", "/">>) /\ HasSuffix(key, <<"/", "startedat">>)

\* time.Parse(startedadDateFormat, body)
parseTimeFromStream(body) ==
  IF body.fmt = startedadDateFormat
  THEN [err |-> FALSE, t |-> body.t]
  ELSE [err |-> TRUE, t |-> 0]

\* keyParts := strings.Split(prefix, "/"); strings.Join(keyParts[0:len-1], "/")
UploadsFolder(prefix) ==
  LET keyParts == Split(prefix)
  IN  Join(SubSeq(keyParts, 1, Len(keyParts) - 1))

\* ------------------------------------------------------------------- Init
MainLocals == [isTruncated |-> TRUE, marker |-> NoKey, totalRemoved |-> 0,
               CommonPrefixes |-> <<>>, Prefix |-> NoKey]
\* (variant: cleanMPUs given the registry root instead of the entry)
MpuLocalsRoot(prefix) ==
  [prefix |-> Root, isTruncated |-> TRUE, keyMarker |-> NoKey,
   totalRemoved |-> 0, Uploads |-> <<>>]

MpuLocals(prefix) == [prefix |-> prefix, isTruncated |-> TRUE, keyMarker |-> NoKey,
                      totalRemoved |-> 0, Uploads |-> <<>>]
FoldLocals(prefix) == [prefix |-> prefix, shouldContinue |-> TRUE,
                       continuationToken |-> NoKey, Contents |-> <<>>,
                       NextContinuationToken |-> NoKey, IsTruncated |-> FALSE]
RmLocals(prefix) == [prefix |-> prefix, uploadsFolder |-> NoKey, Contents |-> <<>>]

StampChoices == {2, 3}
NowChoices == {1, 4}
ThresholdChoices == {0, 1}

\* A folder of one marker, or of a marker and two more objects.
SmallFolder(r, id, body) == [k \in {MarkerKey(r, id)} |-> body]
BigFolder(r, id, body) ==
  [k \in {DataKey(r, id), HashKey(r, id), MarkerKey(r, id)} |->
     IF k = MarkerKey(r, id) THEN body ELSE Blob]
NoObjects == [k \in {} |-> Blob]
Plain(r) == [k \in {PlainKey(r)} |-> Blob]

Merge(f, g) == [k \in DOMAIN f \cup DOMAIN g |-> IF k \in DOMAIN f THEN f[k] ELSE g[k]]

MarkerBodies == {Stamp(t) : t \in StampChoices} \cup {Garbage}

\* Stores with many uploads: every repository holds one plain object; up to
\* three uploads target one key of repository a, up to one a key of c.
UploadStores ==
  {[objects |-> Merge(Plain("a"), Merge(Plain("b"), Plain("c"))),
    uploads |-> {Upload(DataKey("a", <<"x">>), i, ts[i]) : i \in DOMAIN ts}
                  \cup {Upload(DataKey("c", <<"x">>), 4, t) : t \in other}] :
     ts \in UNION {[1..n -> StampChoices] : n \in 0..3},
     other \in {{}} \cup {{t} : t \in StampChoices}}

\* Stores with upload folders: a/_uploads/x, perhaps a/_uploads/xy, perhaps
\* c/_uploads/x (small or big), a plain object in b, one upload in c.
FolderStores ==
  {[objects |-> Merge(SmallFolder("a", <<"x">>, b1), Merge(f2, Merge(Plain("b"), f3))),
    uploads |-> {Upload(DataKey("c", <<"x">>), 4, 2)}] :
     b1 \in MarkerBodies,
     f2 \in {NoObjects} \cup {SmallFolder("a", <<"x", "y">>, b) : b \in MarkerBodies},
     f3 \in {NoObjects}
            \cup {SmallFolder("c", <<"x">>, Stamp(t)) : t \in StampChoices}
            \cup {BigFolder("c", <<"x">>, Stamp(t)) : t \in StampChoices}}

\* The stores of the runs in which the environment fails a call.
FaultStores ==
  {[objects |-> Merge(SmallFolder("a", <<"x">>, Stamp(2)),
                      Merge(SmallFolder("a", <<"x", "y">>, Stamp(3)), Plain("b"))),
    uploads |-> {Upload(DataKey("a", <<"x">>), 1, 2), Upload(DataKey("a", <<"x">>), 2, 3),
                 Upload(DataKey("b", <<"x">>), 3, 2)}]}

Snapshot == [uploads |-> uploads, objects |-> objects, now |-> now, faults |-> faults]

Init ==
  /\ \E dry \in BOOLEAN, c \in ThresholdChoices :
        opts = [DryRun |-> dry, CleanupHours |-> c]
  /\ \/ \E st \in UploadStores \cup FolderStores :
          /\ uploads = st.uploads /\ objects = st.objects
          /\ now \in NowChoices /\ faults = 0
     \/ \E st \in FaultStores :
          /\ uploads = st.uploads /\ objects = st.objects
          /\ now = 4 /\ faults = MaxFaults /\ opts.CleanupHours = 1
  /\ pc = "main_list"
  /\ main = MainLocals
  /\ mpu = MpuLocals(NoKey)
  /\ fold = FoldLocals(NoKey)
  /\ rm = RmLocals(NoKey)
  /\ log = <<>>
  /\ start = Snapshot
  /\ past = <<>>

\* ---------------------------------------------------------------- actions
\* The outcomes of a store call: it succeeds, or the environment fails it.
Outcomes == IF faults > 0 THEN BOOLEAN ELSE {TRUE}
Spend(ok) == IF ok THEN faults ELSE faults - 1

\* (variant: the failure is reported and the loop goes on)
PanicSwallowed(ev) ==
  /\ pc' = pc
  /\ log' = Append(log, ev)

\* panic(err): the process stops where it is.
Panic(ev) ==
  /\ pc' = "panic"
  /\ log' = Append(log, ev)

\* (variant: the summary also counts the upload folders removed)
PageEndCountsFolders(evs) ==
  IF main.isTruncated
  THEN /\ pc' = "main_list"
       /\ log' = log \o evs
  ELSE /\ pc' = "done"
       /\ log' = log \o evs \o
                 <<Ev("total", NoKey, 0,
                      main.totalRemoved
                        + Cardinality({i \in DOMAIN log : log[i].op = "removed"}),
                      TRUE)>>

\* The end of one iteration of main's loop: the next page, or the summary.
PageEnd(evs) ==
  IF main.isTruncated
  THEN /\ pc' = "main_list"
       /\ log' = log \o evs
  ELSE /\ pc' = "done"
       /\ log' = log \o evs \o <<Ev("total", NoKey, 0, main.totalRemoved, TRUE)>>

\* main: one page of the grouped listing.
MainList ==
  /\ pc = "main_list"
  /\ \E ok \in Outcomes :
       /\ faults' = Spend(ok)
       /\ IF ok
          THEN LET objs == StoreListObjects(objects, Root, main.marker, MaxResultCount)
               IN  /\ main' = [main EXCEPT
                                 !.isTruncated = objs.IsTruncated,
                                 !.marker = IF objs.IsTruncated THEN objs.NextMarker ELSE @,
                                 !.CommonPrefixes = objs.CommonPrefixes,
                                 !.Prefix = objs.Prefix]
                   /\ pc' = "main_prefixes"
                   /\ log' = log \o <<Ev("ListObjects", Root, 0,
                                           Len(objs.CommonPrefixes), TRUE)>>
                               \o [i \in DOMAIN objs.CommonPrefixes |->
                                     Ev("CommonPrefix", objs.CommonPrefixes[i], 0, 0, TRUE)]
          ELSE /\ Panic(Ev("ListObjects", Root, 0, 0, FALSE))
               /\ UNCHANGED main
  /\ UNCHANGED <<opts, uploads, objects, now, mpu, fold, rm, start, past>>

\* main: totalRemoved += cleanMPUs(s, opts.Bucket, *cp.Prefix), the call.
CallCleanMPUs ==
  /\ pc = "main_prefixes"
  /\ main.CommonPrefixes # <<>>
  /\ mpu' = MpuLocals(Head(main.CommonPrefixes))
  /\ pc' = "mpu_list"
  /\ log' = Append(log, Ev("cleanMPUs", mpu'.prefix, 0, 0, TRUE))
  /\ UNCHANGED <<opts, uploads, objects, now, faults, main, fold, rm, start, past>>

\* main: after the page's prefixes, cleanUploadFolders unless DryRun.
AfterPrefixes ==
  /\ pc = "main_prefixes"
  /\ main.CommonPrefixes = <<>>
  /\ IF DeleteAllowed
     THEN /\ fold' = FoldLocals(main.Prefix)
          /\ pc' = "fold_list"
          /\ log' = Append(log, Ev("cleanUploadFolders", main.Prefix, 0, 0, TRUE))
     ELSE /\ PageEnd(<<>>)
          /\ UNCHANGED fold
  /\ UNCHANGED <<opts, uploads, objects, now, faults, main, mpu, rm, start, past>>

\* cleanMPUs: one page of the uploads under the prefix.
MpuList ==
  /\ pc = "mpu_list"
  /\ \E ok \in Outcomes :
       /\ faults' = Spend(ok)
       /\ IF ok
          THEN LET resp == StoreListMultipartUploads(uploads, mpu.prefix, mpu.keyMarker,
                                                     MaxResultCount)
               IN  /\ mpu' = [mpu EXCEPT
                                !.isTruncated = resp.IsTruncated,
                                !.keyMarker = resp.NextKeyMarker,
                                !.Uploads = resp.Uploads]
                   /\ pc' = "mpu_uploads"
                   /\ log' = log \o <<Ev("ListMultipartUploads", mpu.prefix, 0,
                                           Len(resp.Uploads), TRUE)>>
                               \o [i \in DOMAIN resp.Uploads |->
                                     Ev("Listed", resp.Uploads[i].Key,
                                        resp.Uploads[i].UploadId, 0, TRUE)]
          ELSE /\ Panic(Ev("ListMultipartUploads", mpu.prefix, 0, 0, FALSE))
               /\ UNCHANGED mpu
  /\ UNCHANGED <<opts, uploads, objects, now, main, fold, rm, start, past>>

\* totalRemoved after an upload that passed the age test: the increment
\* follows the if !opts.DryRun block, whatever the abort returned.
CountAfter(total, aborted) == total + 1

\* cleanMPUs: one upload of the page.
MpuUpload ==
  /\ pc = "mpu_uploads"
  /\ mpu.Uploads # <<>>
  /\ LET multi      == Head(mpu.Uploads)
         since      == now - multi.Initiated
         hoursSince == Hours(since)
         seen(sel)  == Ev("upload", multi.Key, multi.UploadId, since, sel)
     IN  IF Eligible(hoursSince)
         THEN IF AbortAllowed
              THEN \E ok \in Outcomes :
                     /\ faults' = Spend(ok)
                     /\ uploads' = IF ok
                                   THEN {u \in uploads : ~(u.Key = multi.Key
                                                           /\ u.UploadId = multi.UploadId)}
                                   ELSE uploads
                     /\ log' = log \o <<seen(TRUE),
                                        Ev("AbortMultipartUpload", multi.Key,
                                           multi.UploadId, 0, ok)>>
                     /\ mpu' = [mpu EXCEPT !.Uploads = Tail(@),
                                           !.totalRemoved = CountAfter(@, ok)]
              ELSE /\ log' = Append(log, seen(TRUE))
                   /\ mpu' = [mpu EXCEPT !.Uploads = Tail(@),
                                         !.totalRemoved = CountAfter(@, TRUE)]
                   /\ UNCHANGED <<uploads, faults>>
         ELSE /\ log' = Append(log, seen(FALSE))
              /\ mpu' = [mpu EXCEPT !.Uploads = Tail(@)]
              /\ UNCHANGED <<uploads, faults>>
  /\ UNCHANGED <<opts, objects, now, pc, main, fold, rm, start, past>>

\* cleanMPUs: the page is done; the next page, or return to main.
MpuEnd ==
  /\ pc = "mpu_uploads"
  /\ mpu.Uploads = <<>>
  /\ IF mpu.isTruncated
     THEN /\ pc' = "mpu_list"
          /\ UNCHANGED <<main, log>>
     ELSE /\ pc' = "main_prefixes"
          /\ main' = [main EXCEPT !.totalRemoved = @ + mpu.totalRemoved,
                                  !.CommonPrefixes = Tail(@)]
          /\ log' = Append(log, Ev("return", mpu.prefix, 0, mpu.totalRemoved, TRUE))
  /\ UNCHANGED <<opts, uploads, objects, now, faults, mpu, fold, rm, start, past>>

\* cleanUploadFolders: one page of the flat listing.  A failed call is
\* printed and leaves an empty response, whose nil IsTruncated the loop's
\* last statement dereferences.
FoldList ==
  /\ pc = "fold_list"
  /\ \E ok \in Outcomes :
       /\ faults' = Spend(ok)
       /\ IF ok
          THEN LET objs == StoreListObjectsV2(objects, fold.prefix,
                                              fold.continuationToken, MaxResultCount)
               IN  /\ fold' = [fold EXCEPT
                                 !.Contents = objs.Contents,
                                 !.NextContinuationToken = objs.NextContinuationToken,
                                 !.IsTruncated = objs.IsTruncated]
                   /\ pc' = "fold_contents"
                   /\ log' = Append(log, Ev("ListObjectsV2", fold.prefix, 0,
                                            Len(objs.Contents), TRUE))
          ELSE /\ Panic(Ev("ListObjectsV2", fold.prefix, 0, 0, FALSE))
               /\ UNCHANGED fold
  /\ UNCHANGED <<opts, uploads, objects, now, main, mpu, rm, start, past>>

\* (variant: GetObject's error treated like the parse error)
hoursSinceGetPanics(key, ok) ==
  IF ~(ok /\ key \in DOMAIN objects)
  THEN [res |-> "panic", got |-> FALSE, since |-> 0]
  ELSE LET t == parseTimeFromStream(objects[key])
       IN  IF t.err
           THEN [res |-> "panic", got |-> TRUE, since |-> 0]
           ELSE [res |-> "ok", got |-> TRUE, since |-> now - t.t]

\* hoursSinceUploadStarted(s, bucket, key), with ok the outcome of its
\* GetObject call: GetObject's error is returned to the caller, a body that
\* does not parse is panic(err), otherwise the time since the parsed start.
hoursSinceUploadStarted(key, ok) ==
  IF ~(ok /\ key \in DOMAIN objects)
  THEN [res |-> "err", got |-> FALSE, since |-> 0]
  ELSE LET t == parseTimeFromStream(objects[key])
       IN  IF t.err
           THEN [res |-> "panic", got |-> TRUE, since |-> 0]
           ELSE [res |-> "ok", got |-> TRUE, since |-> now - t.t]

\* cleanUploadFolders: one object of the page.
FoldObject ==
  /\ pc = "fold_contents"
  /\ fold.Contents # <<>>
  /\ LET o == Head(fold.Contents)
     IN  IF ~IsMarker(o)
         THEN /\ fold' = [fold EXCEPT !.Contents = Tail(@)]
              /\ UNCHANGED <<faults, pc, rm, log>>
         ELSE \E ok \in (IF o \in DOMAIN objects THEN Outcomes ELSE {TRUE}) :
                /\ faults' = Spend(ok)
                /\ LET r == hoursSinceUploadStarted(o, ok)
                       hoursSince == Hours(r.since)
                       got == Ev("GetObject", o, 0, 0, r.got)
                   IN  IF r.res = "err"
                       THEN \* printed, continue
                            /\ fold' = [fold EXCEPT !.Contents = Tail(@)]
                            /\ log' = Append(log, got)
                            /\ UNCHANGED <<pc, rm>>
                       ELSE IF r.res = "panic"
                       THEN /\ pc' = "panic"
                            /\ log' = IF r.got
                                      THEN log \o <<got, Ev("parse", o, 0, 0, FALSE)>>
                                      ELSE Append(log, got)
                            /\ UNCHANGED <<fold, rm>>
                       ELSE IF Eligible(hoursSince) /\ DeleteAllowed
                       THEN /\ rm' = RmLocals(o)
                            /\ pc' = "rm_list"
                            /\ log' = log \o <<got, Ev("folder", o, 0, r.since, TRUE)>>
                            /\ UNCHANGED fold
                       ELSE /\ fold' = [fold EXCEPT !.Contents = Tail(@)]
                            /\ log' = log \o <<got, Ev("folder", o, 0, r.since,
                                                      Eligible(hoursSince))>>
                            /\ UNCHANGED <<pc, rm>>
  /\ UNCHANGED <<opts, uploads, objects, now, main, mpu, start, past>>

\* cleanUploadFolders: the page is done; the next page, or return to main.
FoldEnd ==
  /\ pc = "fold_contents"
  /\ fold.Contents = <<>>
  /\ fold' = [fold EXCEPT !.continuationToken = fold.NextContinuationToken,
                          !.shouldContinue = fold.IsTruncated]
  /\ IF fold.IsTruncated
     THEN /\ pc' = "fold_list"
          /\ UNCHANGED log
     ELSE PageEnd(<<Ev("folders done", fold.prefix, 0, 0, TRUE)>>)
  /\ UNCHANGED <<opts, uploads, objects, now, faults, main, mpu, rm, start, past>>

\* removeUploadFolder: the one listing under the upload folder's name.
RmList ==
  /\ pc = "rm_list"
  /\ \E ok \in Outcomes :
       /\ faults' = Spend(ok)
       /\ LET uploadsFolder == UploadsFolder(rm.prefix)
          IN  IF ok
              THEN LET objs == StoreListObjectsV2(objects, uploadsFolder, NoKey,
                                                  DefaultMaxKeys)
                   IN  /\ rm' = [rm EXCEPT !.uploadsFolder = uploadsFolder,
                                           !.Contents = objs.Contents]
                       /\ pc' = "rm_contents"
                       /\ log' = Append(log, Ev("ListFolder", uploadsFolder, 0,
                                                Len(objs.Contents), TRUE))
              ELSE /\ Panic(Ev("ListFolder", uploadsFolder, 0, 0, FALSE))
                   /\ UNCHANGED rm
  /\ UNCHANGED <<opts, uploads, objects, now, main, mpu, fold, start, past>>

\* removeUploadFolder: delete one listed object.
RmDelete ==
  /\ pc = "rm_contents"
  /\ rm.Contents # <<>>
  /\ LET o == Head(rm.Contents)
     IN  \E ok \in Outcomes :
           /\ faults' = Spend(ok)
           /\ IF ok
              THEN /\ objects' = Without(objects, o)
                   /\ rm' = [rm EXCEPT !.Contents = Tail(@)]
                   /\ log' = Append(log, Ev("DeleteObject", o, 0, 0, TRUE))
                   /\ UNCHANGED pc
              ELSE /\ Panic(Ev("DeleteObject", o, 0, 0, FALSE))
                   /\ UNCHANGED <<objects, rm>>
  /\ UNCHANGED <<opts, uploads, now, main, mpu, fold, start, past>>

\* removeUploadFolder returns to cleanUploadFolders' loop over the page.
RmReturn ==
  /\ pc = "rm_contents"
  /\ rm.Contents = <<>>
  /\ pc' = "fold_contents"
  /\ fold' = [fold EXCEPT !.Contents = Tail(@)]
  /\ log' = Append(log, Ev("removed", rm.prefix, 0, 0, TRUE))
  /\ UNCHANGED <<opts, uploads, objects, now, faults, main, mpu, rm, start, past>>

\* The tool is started again, with the same threshold, once the previous
\* run has ended; the clock may have moved on.
Rerun ==
  /\ pc \in {"done", "panic"}
  /\ Len(past) + 1 < MaxRuns
  /\ \E dry \in BOOLEAN, tick \in 0..1 :
       /\ opts' = [opts EXCEPT !.DryRun = dry]
       /\ now' = now + tick
       /\ start' = [uploads |-> uploads, objects |-> objects, now |-> now + tick,
                    faults |-> faults]
  /\ past' = Append(past, [opts |-> opts, pc |-> pc, log |-> log, start |-> start,
                           totalRemoved |-> main.totalRemoved, end |-> Snapshot])
  /\ pc' = "main_list"
  /\ main' = MainLocals
  /\ mpu' = MpuLocals(NoKey)
  /\ fold' = FoldLocals(NoKey)
  /\ rm' = RmLocals(NoKey)
  /\ log' = <<>>
  /\ UNCHANGED <<uploads, objects, faults>>

\* The clock moves on while the run is between two pages of the grouped
\* listing (once per run).
Tick ==
  /\ pc = "main_list"
  /\ now = start.now
  /\ main.marker # NoKey
  /\ now' = now + 1
  /\ UNCHANGED <<opts, uploads, objects, faults, pc, main, mpu, fold, rm, log, start, past>>

Next ==
  \/ Tick
  \/ MainList \/ CallCleanMPUs \/ AfterPrefixes
  \/ MpuList \/ MpuUpload \/ MpuEnd
  \/ FoldList \/ FoldObject \/ FoldEnd
  \/ RmList \/ RmDelete \/ RmReturn
  \/ Rerun

Spec == Init /\ [][Next]_vars

\* ----------------------------------------------------------------- claims
\* The whole hours of a duration, truncated toward zero, stated without
\* division: the h of the sign of d with |h| hours <= |d| < |h| + 1 hours.
WholeHours(d) ==
  CHOOSE h \in -8..8 :
    /\ d >= 0 => h >= 0 /\ h * TicksPerHour <= d /\ d < (h + 1) * TicksPerHour
    /\ d < 0  => h <= 0 /\ (h - 1) * TicksPerHour < d /\ d <= h * TicksPerHour

C2_DryRunFrame ==
  opts.DryRun =>
    /\ uploads = start.uploads
    /\ objects = start.objects
    /\ \A i \in DOMAIN log : log[i].op \notin {"AbortMultipartUpload", "DeleteObject"}

\* C2 witness: a dry run has finished with old uploads counted on several
\* pages while the store still holds them and a marker old enough to go.
C2_Witness ==
  /\ opts.DryRun
  /\ pc = "done"
  /\ main.totalRemoved >= 1
  /\ Cardinality({i \in DOMAIN log : log[i].op = "ListObjects"}) >= 2
  /\ \E u \in uploads : Hours(now - u.Initiated) >= opts.CleanupHours
  /\ \E k \in DOMAIN objects :
       /\ IsMarker(k)
       /\ ~parseTimeFromStream(objects[k]).err
       /\ Hours(now - objects[k].t) >= opts.CleanupHours

\* The tree .../_uploads/<id>/ a marker .../_uploads/<id>/startedat stands for.
TreeOfMarker(m) == SubSeq(m, 1, Len(m) - 1)

\* The tree .../_uploads/<id>/ a key under an _uploads folder lies in.
TreeOfKey(k) ==
  LET p == CHOOSE n \in 1..Len(k) :
             k[n] = "_uploads" /\ \A j \in 1..(n - 1) : k[j] # "_uploads"
      q == CHOOSE n \in (p + 2)..Len(k) :
             k[n] = "/" /\ \A j \in (p + 2)..(n - 1) : k[j] # "/"
  IN  SubSeq(k, 1, q)

NoFaultThisRun == faults = start.faults

\* C3: an object is deleted only if it lies in the tree .../_uploads/<id>/
\* of a marker whose age is >= CleanupHours; no object of another upload
\* folder is deleted, a folder whose id extends the stale id included.
C3_OnlyStaleTrees ==
  \A i \in DOMAIN log :
    log[i].op = "DeleteObject" =>
      \E j \in 1..(i - 1) :
        /\ log[j].op = "folder"
        /\ WholeHours(log[j].n) >= opts.CleanupHours
        /\ HasPrefix(log[i].key, TreeOfMarker(log[j].key))

\* C4: every DeleteObject call on a key of a tree comes after the fetch and
\* the age evaluation of that tree's own startedat marker in the same run.
C4_ReadBeforeDelete ==
  \A i \in DOMAIN log :
    log[i].op = "DeleteObject" =>
      \E j \in 1..(i - 1) :
        /\ log[j].op = "folder"
        /\ log[j].key = TreeOfKey(log[i].key) \o <<"startedat">>

\* C5: in a live run without store failures, once removeUploadFolder has
\* returned for a marker, no object under that marker's tree is left.
C5_CompleteDeletion ==
  NoFaultThisRun =>
    \A i \in DOMAIN log :
      log[i].op = "removed" =>
        \A k \in DOMAIN objects : ~HasPrefix(k, TreeOfMarker(log[i].key))

\* The index of the cleanMPUs call that the return at index i ends.
CallOf(i) ==
  CHOOSE j \in 1..i : log[j].op = "cleanMPUs" /\ \A k \in (j + 1)..i : log[k].op # "cleanMPUs"

\* C6: when cleanMPUs returns, every upload the store held under its prefix
\* has been evaluated exactly once.
C6_EachUploadOnce ==
  \A i \in DOMAIN log :
    log[i].op = "return" =>
      \A u \in {v \in start.uploads : HasPrefix(v.Key, log[i].key)} :
        Cardinality({k \in CallOf(i)..i :
                       /\ log[k].op = "upload"
                       /\ log[k].key = u.Key /\ log[k].id = u.UploadId}) = 1

Selected(l) == {i \in DOMAIN l : l[i].op \in {"upload", "folder"} /\ l[i].ok}

\* A second run after a finished first run: the clock has not moved since
\* the first run started and no call has failed.
SecondRun(dryFirst, dryNow) ==
  /\ Len(past) = 1
  /\ past[1].pc = "done"
  /\ past[1].opts.DryRun = dryFirst
  /\ opts.DryRun = dryNow
  /\ past[1].start.now = start.now
  /\ past[1].end.now = start.now
  /\ now = start.now
  /\ past[1].start.faults = faults

\* C7: a live run that follows a finished live run, with the same clock and
\* no failed call, selects no upload and no folder.
C7_Idempotent ==
  SecondRun(FALSE, FALSE) => Selected(log) = {}

\* C8: for the same store, clock and threshold, the total a dry run reports
\* is the number of uploads a live run removes from the store.
C8_DryCountIsLiveRemoval ==
  SecondRun(TRUE, FALSE) /\ pc = "done" =>
    past[1].totalRemoved = Cardinality(start.uploads \ uploads)

Evaluated(l) == {l[i].key : i \in {j \in DOMAIN l : l[j].op = "folder"}}
FoundStale(l) == {l[i].key : i \in {j \in DOMAIN l : l[j].op = "folder" /\ l[j].ok}}

\* C9: for the same store, clock and threshold, a dry run evaluates the
\* markers a live run evaluates and finds the same folders stale.
C9_DrySameDecisions ==
  SecondRun(TRUE, FALSE) /\ pc = "done" =>
    /\ Evaluated(past[1].log) = Evaluated(log)
    /\ FoundStale(past[1].log) = FoundStale(log)

\* C10: in a live run the count cleanMPUs returns is the number of its
\* AbortMultipartUpload calls that succeeded.
C10_CountsSucceededAborts ==
  ~opts.DryRun =>
    \A i \in DOMAIN log :
      log[i].op = "return" =>
        log[i].n = Cardinality({k \in CallOf(i)..i :
                                  log[k].op = "AbortMultipartUpload" /\ log[k].ok})

\* C11: a marker whose body does not parse is logged and skipped, and the
\* run goes on: the run is never stopped by a parse failure.
C11_ParseFailureSkips ==
  ~(pc = "panic" /\ log # <<>> /\ Last(log).op = "parse")

GetFailed(e) == e.op = "GetObject" /\ ~e.ok

\* C12: a step in which GetObject fails for a candidate marker issues no
\* delete, leaves the store alone, and leaves cleanUploadFolders in its loop
\* over the page, at the next key, with the page's cursor kept.
C12_GetFailureSkips ==
  [][(Len(log') > Len(log) /\ GetFailed(Last(log'))) =>
       /\ pc' = "fold_contents"
       /\ fold' = [fold EXCEPT !.Contents = Tail(@)]
       /\ objects' = objects /\ uploads' = uploads
       /\ rm' = rm /\ main' = main]_vars

\* C12 witness: after a failed fetch (of a marker deleted earlier in the
\* run) the scan has listed a following page and evaluated a later marker.
C12_Witness ==
  \E i, j, k \in DOMAIN log :
    /\ i < j /\ j < k
    /\ GetFailed(log[i])
    /\ log[i].key \notin DOMAIN objects
    /\ log[j].op = "ListObjectsV2"
    /\ log[k].op = "folder" /\ log[k].key # log[i].key

\* C13: every common prefix the Scanner hands to cleanMPUs is then handed
\* to cleanUploadFolders, with that same prefix, before the next prefix.
C13_BothReapersPerPrefix ==
  \A i \in DOMAIN log :
    (/\ log[i].op = "cleanMPUs"
     /\ (pc = "done" \/ \E j \in DOMAIN log : j > i /\ log[j].op = "cleanMPUs"))
    => \E k \in DOMAIN log :
         /\ k > i
         /\ log[k].op = "cleanUploadFolders" /\ log[k].key = log[i].key
         /\ \A j \in (i + 1)..k : log[j].op # "cleanMPUs"

\* C14: a failure inside a Reaper never stops the Scanner: the only call
\* whose failure ends a run is the Scanner's own grouped listing.
C14_ReaperFailureIsolated ==
  pc = "panic" => Last(log).op = "ListObjects"

TopListFail(e) == e.op \in {"ListObjects", "ListMultipartUploads"} /\ ~e.ok
TopListFailed(l) == \E i \in DOMAIN l : TopListFail(l[i])

\* C15: the step in which the grouped listing or ListMultipartUploads fails
\* stops the run there with the store untouched, and from then on the run
\* issues no call and the store stays as it is (the only step left is the
\* start of another run).
C15_TopListingFatal ==
  [][/\ TopListFailed(log') =>
          /\ pc' = "panic" /\ TopListFail(Last(log'))
          /\ objects' = objects /\ uploads' = uploads
     /\ TopListFailed(log) =>
          /\ objects' = objects /\ uploads' = uploads
          /\ log' = <<>> /\ pc' = "main_list"]_vars

\* C15 witness: ListMultipartUploads failed for a later prefix after the run
\* had already aborted an upload; the run is stopped, the rest is in place.
C15_Witness ==
  /\ pc = "panic"
  /\ Last(log).op = "ListMultipartUploads" /\ ~Last(log).ok
  /\ uploads # start.uploads /\ uploads # {}

\* The common prefixes the store holds under the registry root.
PrefixesOf(objs) ==
  LET all == StoreListObjects(objs, Root, NoKey, Cardinality(DOMAIN objs) + 1)
  IN  {all.CommonPrefixes[i] : i \in DOMAIN all.CommonPrefixes}

\* C16: cleanMPUs is called only with a prefix an earlier grouped-listing
\* response of the run returned, never twice with the same prefix, and by the
\* summary once for every prefix returned and for every repository in the
\* store; AbortMultipartUpload is issued only for a (key, uploadId) pair that
\* a ListMultipartUploads response of the current cleanMPUs call returned.
C16_PrefixesDiscovered ==
  /\ \A i \in DOMAIN log :
       log[i].op = "cleanMPUs" =>
         /\ \E j \in 1..(i - 1) :
              log[j].op = "CommonPrefix" /\ log[j].key = log[i].key
         /\ \A j \in DOMAIN log :
              (log[j].op = "cleanMPUs" /\ log[j].key = log[i].key) => j = i
  /\ pc = "done" =>
       /\ \A i \in DOMAIN log :
            log[i].op = "CommonPrefix" =>
              \E j \in DOMAIN log :
                j > i /\ log[j].op = "cleanMPUs" /\ log[j].key = log[i].key
       /\ \A p \in PrefixesOf(objects) :
            \E j \in DOMAIN log : log[j].op = "cleanMPUs" /\ log[j].key = p
  /\ \A i \in DOMAIN log :
       log[i].op = "AbortMultipartUpload" =>
         \E j \in (CallOf(i) + 1)..(i - 1) :
           /\ log[j].op = "Listed"
           /\ log[j].key = log[i].key /\ log[j].id = log[i].id
           /\ HasPrefix(log[j].key, log[CallOf(i)].key)

\* C16 witness: a finished live run over two grouped pages that called
\* cleanMPUs for three repositories and aborted uploads in two of them.
C16_Witness ==
  /\ pc = "done"
  /\ Cardinality({i \in DOMAIN log : log[i].op = "ListObjects"}) >= 2
  /\ Cardinality({i \in DOMAIN log : log[i].op = "cleanMPUs"}) >= 3
  /\ \E i, j \in DOMAIN log :
       /\ log[i].op = "AbortMultipartUpload" /\ log[j].op = "AbortMultipartUpload"
       /\ log[CallOf(i)].key # log[CallOf(j)].key

\* The sum of the counts cleanMPUs returned in the first n events of l.
RECURSIVE ReturnedSum(_, _)
ReturnedSum(l, n) ==
  IF n = 0 THEN 0
  ELSE ReturnedSum(l, n - 1) + (IF l[n].op = "return" THEN l[n].n ELSE 0)

\* C17: main's running total is always the sum of the counts cleanMPUs has
\* returned so far (so no folder deletion moves it), and at the summary the
\* total printed is that sum, with one count for every prefix the grouped
\* listing returned.
C17_TotalIsSumOfCounts ==
  /\ pc # "panic" => main.totalRemoved = ReturnedSum(log, Len(log))
  /\ pc = "done" =>
       /\ Last(log).op = "total"
       /\ Last(log).n = ReturnedSum(log, Len(log))
       /\ \A i \in DOMAIN log :
            log[i].op = "CommonPrefix" =>
              Cardinality({j \in DOMAIN log :
                             log[j].op = "return" /\ log[j].key = log[i].key}) = 1

\* C17 witness: a finished live run in which two repositories returned a
\* positive count and an upload folder was removed.
C17_Witness ==
  /\ pc = "done"
  /\ \E i, j \in DOMAIN log :
       /\ i # j
       /\ log[i].op = "return" /\ log[i].n > 0
       /\ log[j].op = "return" /\ log[j].n > 0
  /\ \E k \in DOMAIN log : log[k].op = "removed"
  /\ \E k \in DOMAIN log : log[k].op = "DeleteObject" /\ log[k].ok

ListingOps == {"ListObjects", "ListMultipartUploads", "ListObjectsV2", "ListFolder"}

\* C18: a run whose listing calls all succeeded is never stopped short of
\* its summary: it is not at a panic.
C18_RunsReachSummary ==
  pc = "panic" => \E i \in DOMAIN log : log[i].op \in ListingOps /\ ~log[i].ok
====
